---- MODULE Spec2Model ----
(***************************************************************************)
(* Typing stress analyzer (calm-o-meter.py): the Levenshtein distance,     *)
(* the metrics derivation, the feedback classifier and the Start / Done /  *)
(* New Sentence / Clear session of StressAnalyzerApp.                      *)
(*                                                                         *)
(* A Python str is a sequence of one-character strings.  A Python float is *)
(* an exact rational <<n, d>> in lowest terms with d > 0.  None is the     *)
(* empty tuple and a value v that may be None is <<v>>.                    *)
(***************************************************************************)
EXTENDS Integers, Sequences, FiniteSets, TLC

VARIABLES
    lev_a, lev_b, lev_out,                       \* one call of levenshtein
    cm_target, cm_typed, cm_typed2, cm_elapsed,  \* calls of compute_metrics
    cm_out, cm_out2, cm_calls,
    fb_in, fb_out,                               \* one call of feedback_text
    current_target, start_time, ended,           \* StressAnalyzerApp
    type_box, start_btn, done_btn, result_text, info, clock

levVars == <<lev_a, lev_b, lev_out>>
cmVars  == <<cm_target, cm_typed, cm_typed2, cm_elapsed, cm_out, cm_out2, cm_calls>>
fbVars  == <<fb_in, fb_out>>
appVars == <<current_target, start_time, ended, type_box, start_btn, done_btn,
             result_text, info, clock>>
vars    == <<levVars, cmVars, fbVars, appVars>>

----------------------------------------------------------------------------
(* Bounds of the model *)

\* longest generated string
MaxLen == 3

\* the generated strings are over this alphabet
Alphabet == {"a", "b"}

Strs == UNION {[1..n -> Alphabet] : n \in 0..MaxLen}

None == <<>>
Some(v) == <<v>>

----------------------------------------------------------------------------
(* levenshtein, lines 18-37 *)

Min2(x, y) == IF y < x THEN y ELSE x
Max2(x, y) == IF y > x THEN y ELSE x
Min3(x, y, z) == Min2(Min2(x, y), z)

\* list(range(lb + 1)): Python index j is index j + 1 here
range_list(n) == [k \in 1..(n + 1) |-> k - 1]

\* [i] + [0] * lb
new_row(i, lb) == [k \in 1..(lb + 1) |-> IF k = 1 THEN i ELSE 0]

\* 0 if ca == cb else 1 (replace_cost_always: every substitution costs 1)
replace_cost_always(ca, cb) == 1
replace_cost(ca, cb) == IF ca = cb THEN 0 ELSE 1

\* prev[j] + 1 (delete_cost_two: a deletion costs 2)
delete_cost_two(prev, j) == prev[j + 1] + 2
delete_cost(prev, j) == prev[j + 1] + 1

\* the body of the inner loop for column j
cell(prev, curr, ca, cb, j) ==
    LET ins     == curr[j] + 1
        delete  == delete_cost(prev, j)
        replace == prev[j] + replace_cost(ca, cb)
    IN  Min3(ins, delete, replace)

\* for j, cb in enumerate(b, start=1): curr[j] = min(...)
RECURSIVE inner_loop(_, _, _, _, _)
inner_loop(prev, curr, ca, b, j) ==
    IF j > Len(b) THEN curr
    ELSE LET next == [curr EXCEPT ![j + 1] = cell(prev, curr, ca, b[j], j)]
         IN  \* the test is always true: it has the cell computed before the next
             IF next[j + 1] >= 0 THEN inner_loop(prev, next, ca, b, j + 1) ELSE next

\* for i, ca in enumerate(a, start=1): ...; prev = curr
RECURSIVE outer_loop(_, _, _, _)
outer_loop(prev, a, b, i) ==
    IF i > Len(a) THEN prev
    ELSE LET curr == inner_loop(prev, new_row(i, Len(b)), a[i], b, 1)
         IN  \* the test is always true: it has the row computed before the next
             IF Len(curr) = Len(b) + 1 THEN outer_loop(curr, a, b, i + 1) ELSE curr

levenshtein(a, b) ==
    IF a = b THEN 0
    ELSE LET la == Len(a)
             lb == Len(b)
         IN  IF la = 0 THEN lb
             ELSE IF lb = 0 THEN la
             ELSE outer_loop(range_list(lb), a, b, 1)[lb + 1]

----------------------------------------------------------------------------
(* self.targets, lines 107-112 *)

targets == <<
    \* The quick brown fox jumps over the lazy dog.
    <<"T","h","e"," ","q","u","i","c","k"," ","b","r","o","w","n"," ",
      "f","o","x"," ","j","u","m","p","s"," ","o","v","e","r"," ","t",
      "h","e"," ","l","a","z","y"," ","d","o","g",".">>,
    \* Practice consistently to improve speed and reduce stress.
    <<"P","r","a","c","t","i","c","e"," ","c","o","n","s","i","s","t",
      "e","n","t","l","y"," ","t","o"," ","i","m","p","r","o","v","e",
      " ","s","p","e","e","d"," ","a","n","d"," ","r","e","d","u","c",
      "e"," ","s","t","r","e","s","s",".">>,
    \* In programming, patience and precision are often more valuable than haste.
    <<"I","n"," ","p","r","o","g","r","a","m","m","i","n","g",","," ",
      "p","a","t","i","e","n","c","e"," ","a","n","d"," ","p","r","e",
      "c","i","s","i","o","n"," ","a","r","e"," ","o","f","t","e","n",
      " ","m","o","r","e"," ","v","a","l","u","a","b","l","e"," ","t",
      "h","a","n"," ","h","a","s","t","e",".">>,
    \* Python makes many everyday tasks simpler and more fun to automate.
    <<"P","y","t","h","o","n"," ","m","a","k","e","s"," ","m","a","n",
      "y"," ","e","v","e","r","y","d","a","y"," ","t","a","s","k","s",
      " ","s","i","m","p","l","e","r"," ","a","n","d"," ","m","o","r",
      "e"," ","f","u","n"," ","t","o"," ","a","u","t","o","m","a","t",
      "e",".">>
>>

----------------------------------------------------------------------------
(* float arithmetic, as exact rationals <<n, d>> in lowest terms, d > 0 *)

RECURSIVE GCD(_, _)
GCD(m, n) == IF n = 0 THEN m ELSE GCD(n, m % n)

Abs(n) == IF n < 0 THEN -n ELSE n

\* the float n / d, d # 0
Rat(n, d) ==
    LET g == GCD(Abs(n), Abs(d))
        s == IF d < 0 THEN -1 ELSE 1
    IN  <<(s * n) \div g, (s * d) \div g>>

R(n) == <<n, 1>>

RAdd(x, y) == Rat(x[1] * y[2] + y[1] * x[2], x[2] * y[2])
RSub(x, y) == Rat(x[1] * y[2] - y[1] * x[2], x[2] * y[2])
RMul(x, y) == Rat(x[1] * y[1], x[2] * y[2])
RDiv(x, y) == Rat(x[1] * y[2], x[2] * y[1])
RLt(x, y)  == x[1] * y[2] < y[1] * x[2]
RLe(x, y)  == x[1] * y[2] <= y[1] * x[2]
\* Python's max and min of two numbers keep the first on a tie
RMax(x, y) == IF RLt(x, y) THEN y ELSE x
RMin(x, y) == IF RLt(y, x) THEN y ELSE x

----------------------------------------------------------------------------
(* compute_metrics, lines 41-69 *)

\* baseline_wpm = 35.0
baseline_wpm == 35

\* the 1e-6 floor of minutes is 1 / MinutesFloorInv
MinutesFloorInv == 1000000

\* {"wpm": 0.0, "accuracy": 1.0, "errors": 0, "stress": 0.0}
\* (empty_target_metrics_zero_accuracy: accuracy 0.0)
empty_target_metrics_zero_accuracy ==
    [wpm |-> R(0), accuracy |-> R(0), errors |-> 0, stress |-> R(0)]
empty_target_metrics ==
    [wpm |-> R(0), accuracy |-> R(1), errors |-> 0, stress |-> R(0)]

\* minutes = max(elapsed_seconds / 60.0, 1e-6)
\* (minutes_in_seconds: the division by 60 left out)
minutes_in_seconds(elapsed_seconds) ==
    RMax(elapsed_seconds, Rat(1, MinutesFloorInv))
minutes_of(elapsed_seconds) ==
    RMax(RDiv(elapsed_seconds, R(60)), Rat(1, MinutesFloorInv))

\* accuracy = max(0.0, (target_len - dist) / target_len)
\* (accuracy_unclamped: the max left out)
accuracy_unclamped(target_len, dist) == Rat(target_len - dist, target_len)
accuracy_of(target_len, dist) == RMax(R(0), Rat(target_len - dist, target_len))

\* wpm_component = max(0.0, (baseline_wpm - wpm) / baseline_wpm)
\* (wpm_component_inverted: wpm - baseline_wpm)
wpm_component_inverted(wpm) ==
    RMax(R(0), RDiv(RSub(wpm, R(baseline_wpm)), R(baseline_wpm)))
wpm_component_of(wpm) ==
    RMax(R(0), RDiv(RSub(R(baseline_wpm), wpm), R(baseline_wpm)))

\* lines 52-69, with dist = levenshtein(target, typed)
metrics_from_dist(target_len, dist, elapsed_seconds) ==
    LET correct_chars      == Max2(0, target_len - dist)
        minutes            == minutes_of(elapsed_seconds)
        wpm                == RDiv(Rat(correct_chars, 5), minutes)
        accuracy           == accuracy_of(target_len, dist)
        wpm_component      == wpm_component_of(wpm)
        accuracy_component == RSub(R(1), accuracy)
        raw   == RAdd(RMul(Rat(1, 2), wpm_component),
                      RMul(Rat(1, 2), accuracy_component))
        stress == RMin(R(100), RMax(R(0), RMul(raw, R(100))))
    IN  [wpm |-> wpm, accuracy |-> accuracy, errors |-> dist, stress |-> stress]

\* whether the empty-target return of line 45 is taken
empty_target(target) == Len(target) = 0

\* the call: ret is the returned dict, calls the functions it called, in order
compute_metrics_run(target, typed, elapsed_seconds) ==
    IF empty_target(target)
    THEN [ret |-> empty_target_metrics, calls |-> <<>>]
    ELSE [ret   |-> metrics_from_dist(Len(target), levenshtein(target, typed),
                                      elapsed_seconds),
          calls |-> <<"levenshtein">>]

compute_metrics(target, typed, elapsed_seconds) ==
    compute_metrics_run(target, typed, elapsed_seconds).ret

----------------------------------------------------------------------------
(* feedback_text, lines 73-95 *)

\* the four mood lines, by their first word
Relaxed  == "Relaxed - Great typing speed and accuracy!"
Mild     == "Mildly stressed - A little rushed or a few mistakes."
Stressed == "Stressed - Consider taking short breaks and deep breaths."
High     == "Highly stressed - try breathing exercises, slow down and rest."

AccuracyTip == "Focus on accuracy over speed; make fewer mistakes."
SpeedTip    == "Practice typing regularly to increase speed (short daily drills)."
MaintainTip == "Keep up the good work - maintain steady practice!"

\* lines 78-85 (mood_closed_bands: <= for <)
mood_closed_bands(s) ==
    IF RLe(s, R(20)) THEN Relaxed
    ELSE IF RLe(s, R(40)) THEN Mild
    ELSE IF RLe(s, R(70)) THEN Stressed
    ELSE High
mood_of(s) ==
    IF RLt(s, R(20)) THEN Relaxed
    ELSE IF RLt(s, R(40)) THEN Mild
    ELSE IF RLt(s, R(70)) THEN Stressed
    ELSE High

\* lines 87-93 (tips_always_maintain: the maintain tip appended unconditionally)
tips_always_maintain(acc, wpm) ==
    LET t1 == IF RLt(acc, Rat(85, 100)) THEN <<AccuracyTip>> ELSE <<>>
        t2 == IF RLt(wpm, R(25)) THEN t1 \o <<SpeedTip>> ELSE t1
    IN  t2 \o <<MaintainTip>>
tips_of(acc, wpm) ==
    LET t1 == IF RLt(acc, Rat(85, 100)) THEN <<AccuracyTip>> ELSE <<>>
        t2 == IF RLt(wpm, R(25)) THEN t1 \o <<SpeedTip>> ELSE t1
    IN  IF t2 = <<>> THEN <<MaintainTip>> ELSE t2

\* the returned text is the mood line, "Tips:" and one "- tip" line per tip
feedback_text(metrics) ==
    [mood |-> mood_of(metrics.stress),
     tips |-> tips_of(metrics.accuracy, metrics.wpm)]

----------------------------------------------------------------------------
(* Calls of the pure functions on bounded inputs *)

\* the elapsed times tried are 30 s apart, up to 30 * MaxElapsedTicks s
MaxElapsedTicks == 2

\* a negative reading, a reading under the 1e-6 minute floor, and 0, 30, ...
ElapsedSamples ==
    {R(-1), Rat(3, 100000)} \cup {R(30 * k) : k \in 0..MaxElapsedTicks}

\* longest generated string given to compute_metrics
MaxMetricsLen == 2

\* the generated strings and the first target sentence
CmStrs == UNION {[1..n -> Alphabet] : n \in 0..MaxMetricsLen} \cup {targets[1]}

LevInit ==
    /\ lev_a \in Strs
    /\ lev_b \in Strs
    /\ lev_out = None

LevIdle == lev_a = <<>> /\ lev_b = <<>> /\ lev_out = None

CallLevenshtein ==
    /\ lev_out = None
    /\ lev_out' = Some(levenshtein(lev_a, lev_b))
    /\ UNCHANGED <<lev_a, lev_b, cmVars, fbVars, appVars>>

CmInit ==
    /\ cm_target \in CmStrs
    /\ cm_typed \in CmStrs
    /\ cm_elapsed \in ElapsedSamples
    /\ cm_typed2 = <<>>
    /\ cm_out = None
    /\ cm_out2 = None
    /\ cm_calls = <<>>

CmIdle ==
    /\ cm_target = <<>>
    /\ cm_typed = <<>>
    /\ cm_elapsed = R(0)
    /\ cm_typed2 = <<>>
    /\ cm_out = None
    /\ cm_out2 = None
    /\ cm_calls = <<>>

\* compute_metrics(cm_target, cm_typed, cm_elapsed)
CallComputeMetrics ==
    /\ cm_out = None
    /\ LET run == compute_metrics_run(cm_target, cm_typed, cm_elapsed)
       IN  /\ cm_out' = Some(run.ret)
           /\ cm_calls' = run.calls
    /\ UNCHANGED <<cm_target, cm_typed, cm_typed2, cm_elapsed, cm_out2,
                   levVars, fbVars, appVars>>

\* a second call, same target and elapsed time, another typed text
CallComputeMetricsAgain ==
    /\ cm_out2 = None
    /\ \E t2 \in CmStrs :
          /\ cm_typed2' = t2
          /\ cm_out2' = Some(compute_metrics(cm_target, t2, cm_elapsed))
    /\ UNCHANGED <<cm_target, cm_typed, cm_elapsed, cm_out, cm_calls,
                   levVars, fbVars, appVars>>

\* the metrics tried are on grids of step 1/2 (stress, wpm) and 1/20 (accuracy)
MaxStressHalves == 200
MaxWpmHalves == 52
MaxAccuracyTwentieths == 20

MetricsSamples ==
    [wpm      : {Rat(k, 2) : k \in 0..MaxWpmHalves},
     accuracy : {Rat(k, 20) : k \in 0..MaxAccuracyTwentieths},
     errors   : {0},
     stress   : {Rat(k, 2) : k \in 0..MaxStressHalves}]

FbInit ==
    /\ fb_in \in MetricsSamples
    /\ fb_out = None

FbIdle == fb_in = empty_target_metrics /\ fb_out = None

CallFeedbackText ==
    /\ fb_out = None
    /\ fb_out' = Some(feedback_text(fb_in))
    /\ UNCHANGED <<fb_in, levVars, cmVars, appVars>>

----------------------------------------------------------------------------
(* StressAnalyzerApp, lines 99-222 *)

\* time.perf_counter() reads 0, 12, ..., 12 * MaxTicks, never going back
MaxTicks == 2

Times == {12 * k : k \in 0..MaxTicks}

NL == "\n"

\* what the user may have typed for a target: nothing, the target, the target
\* and Return, its first three characters, something else
TypedChoices(target) ==
    {<<>>, target, target \o <<NL>>, SubSeq(target, 1, 3), <<"a", "b">>}

\* Text.get("1.0", tk.END): the content and the widget's final newline
tk_get(text) == text \o <<NL>>

\* str.rstrip("\n")
RECURSIVE rstrip_nl(_)
rstrip_nl(s) ==
    IF s # <<>> /\ s[Len(s)] = NL THEN rstrip_nl(SubSeq(s, 1, Len(s) - 1)) ELSE s

EmptyResult ==
    [kind |-> "empty", elapsed |-> R(0), metrics |-> empty_target_metrics,
     feedback |-> feedback_text(empty_target_metrics)]

\* "Test started ..." of line 166
StartedResult == [EmptyResult EXCEPT !.kind = "started"]

\* __init__, lines 100-153
AppInit ==
    /\ current_target = targets[1]
    /\ start_time = None
    /\ ended = FALSE
    /\ type_box = [state |-> "disabled", text |-> <<>>]
    /\ start_btn = "normal"
    /\ done_btn = "disabled"
    /\ result_text = EmptyResult
    /\ info = None
    /\ clock = 0

AppIdle == AppInit

\* the user types into the typing area; a disabled Text takes no input
TypeText ==
    /\ type_box.state = "normal"
    /\ \E t \in TypedChoices(current_target) :
          type_box' = [type_box EXCEPT !.text = t]
    /\ UNCHANGED <<current_target, start_time, ended, start_btn, done_btn,
                   result_text, info, clock, levVars, cmVars, fbVars>>

\* Start button, lines 155-167
start_test ==
    /\ start_btn = "normal"
    /\ \E t \in Times :
          /\ t >= clock
          /\ clock' = t
          /\ start_time' = Some(t)
    /\ type_box' = [state |-> "normal", text |-> <<>>]
    /\ ended' = FALSE
    /\ start_btn' = "disabled"
    /\ done_btn' = "normal"
    /\ result_text' = StartedResult
    /\ UNCHANGED <<current_target, info, levVars, cmVars, fbVars>>

\* Done button, lines 169-201
end_test ==
    /\ done_btn = "normal"
    /\ IF start_time = None
       THEN /\ info' = Some("Click Start before Done.")
            /\ UNCHANGED <<current_target, start_time, ended, type_box, start_btn,
                           done_btn, result_text, clock>>
       ELSE IF ended
       THEN /\ info' = Some("Test already finished. Click New Sentence to try again.")
            /\ UNCHANGED <<current_target, start_time, ended, type_box, start_btn,
                           done_btn, result_text, clock>>
       ELSE \E end_time \in Times :
              /\ end_time >= clock
              /\ clock' = end_time
              /\ LET elapsed == R(end_time - start_time[1])
                     typed   == rstrip_nl(tk_get(type_box.text))
                     metrics == compute_metrics(current_target, typed, elapsed)
                 IN  result_text' = [kind |-> "result", elapsed |-> elapsed,
                                     metrics |-> metrics,
                                     feedback |-> feedback_text(metrics)]
              /\ type_box' = [type_box EXCEPT !.state = "disabled"]
              /\ done_btn' = "disabled"
              /\ start_btn' = "normal"
              /\ ended' = TRUE
              /\ start_time' = None
              /\ UNCHANGED <<current_target, info>>
    /\ UNCHANGED <<levVars, cmVars, fbVars>>

\* the typing area after clear_typed, lines 220-222
cleared_type_box == [state |-> "disabled", text |-> <<>>]

\* Clear button, lines 219-222
clear_typed ==
    /\ type_box' = cleared_type_box
    /\ UNCHANGED <<current_target, start_time, ended, start_btn, done_btn,
                   result_text, info, clock, levVars, cmVars, fbVars>>

\* New Sentence button, lines 203-217
new_sentence ==
    /\ \E k \in 1..Len(targets) : current_target' = targets[k]
    /\ type_box' = cleared_type_box
    /\ result_text' = EmptyResult
    /\ start_time' = None
    /\ ended' = FALSE
    /\ start_btn' = "normal"
    /\ done_btn' = "disabled"
    /\ UNCHANGED <<info, clock, levVars, cmVars, fbVars>>

----------------------------------------------------------------------------
(* Specifications *)

NextLev == CallLevenshtein
InitLev == LevInit /\ CmIdle /\ FbIdle /\ AppIdle
SpecLev == InitLev /\ [][NextLev]_vars

NextMetrics == CallComputeMetrics \/ CallComputeMetricsAgain
InitMetrics == LevIdle /\ CmInit /\ FbIdle /\ AppIdle
SpecMetrics == InitMetrics /\ [][NextMetrics]_vars

NextFeedback == CallFeedbackText
InitFeedback == LevIdle /\ CmIdle /\ FbInit /\ AppIdle
SpecFeedback == InitFeedback /\ [][NextFeedback]_vars

Next == TypeText \/ start_test \/ end_test \/ new_sentence \/ clear_typed
Init == LevIdle /\ CmIdle /\ FbIdle /\ AppInit
Spec == Init /\ [][Next]_vars

----------------------------------------------------------------------------
(* Properties *)

\* the reference: the least number of insertions, deletions and substitutions
RECURSIVE RefLev(_, _)
RefLev(a, b) ==
    IF a = <<>> THEN Len(b)
    ELSE IF b = <<>> THEN Len(a)
    ELSE Min3(RefLev(Tail(a), b) + 1,
              RefLev(a, Tail(b)) + 1,
              RefLev(Tail(a), Tail(b)) + (IF Head(a) = Head(b) THEN 0 ELSE 1))

\* C1: levenshtein(a, b) is the Levenshtein distance of a and b, as the
\* reference recursive definition gives it, the empty string included.
LevenshteinIsReference ==
    lev_out # None => lev_out[1] = RefLev(lev_a, lev_b)

LevenshteinTableWitness ==
    /\ lev_out = Some(2)
    /\ lev_a = <<"a", "b", "a">>
    /\ lev_b = <<"b", "b">>

\* C2: levenshtein(a, b) = levenshtein(b, a).
LevenshteinSymmetric ==
    lev_out # None => lev_out[1] = levenshtein(lev_b, lev_a)

LevenshteinSymmetricWitness ==
    /\ lev_out = Some(2)
    /\ lev_a = <<"a">>
    /\ lev_b = <<"b", "a", "b">>

\* C3: for the empty target compute_metrics returns wpm 0, accuracy 1,
\* errors 0 and stress 0 whatever was typed and whatever the elapsed time, and
\* calls no levenshtein.
EmptyTargetResult ==
    (cm_out # None /\ cm_target = <<>>) =>
        /\ cm_out[1] = [wpm |-> R(0), accuracy |-> R(1), errors |-> 0, stress |-> R(0)]
        /\ cm_calls = <<>>

EmptyTargetWitness ==
    /\ cm_out # None
    /\ cm_target = <<>>
    /\ cm_typed = <<"a", "b">>
    /\ cm_elapsed = R(0)

\* the ranges of the returned record
MetricsRanges(m) ==
    /\ RLe(R(0), m.wpm)
    /\ RLe(R(0), m.accuracy) /\ RLe(m.accuracy, R(1))
    /\ m.errors >= 0
    /\ RLe(R(0), m.stress) /\ RLe(m.stress, R(100))

\* C4 as claimed: the ranges hold and errors = levenshtein(target, typed) for
\* every target, typed text and elapsed time.
MetricsRangesAndErrorsEverywhere ==
    cm_out # None =>
        /\ MetricsRanges(cm_out[1])
        /\ cm_out[1].errors = levenshtein(cm_target, cm_typed)

\* C4 as amended: wpm >= 0, 0 <= accuracy <= 1, errors >= 0, 0 <= stress <= 100
\* for every target, typed text and elapsed time; errors is
\* levenshtein(target, typed) when the target is not empty and 0 when it is.
MetricsRangesAndErrors ==
    cm_out # None =>
        /\ MetricsRanges(cm_out[1])
        /\ cm_out[1].errors = IF cm_target = <<>> THEN 0
                              ELSE levenshtein(cm_target, cm_typed)

\* more errors than the target has characters, no elapsed time
MetricsRangesWitness ==
    /\ cm_out # None
    /\ cm_target = <<"a">>
    /\ cm_typed = <<"b", "b">>
    /\ cm_elapsed = R(0)
    /\ cm_out[1].errors = 2
    /\ cm_out[1].accuracy = R(0)

\* C5: for one non-empty target and one elapsed time, a typed text with no
\* more errors than another has no more stress than it.
StressMonotone ==
    (/\ cm_out # None
     /\ cm_out2 # None
     /\ cm_target # <<>>
     /\ levenshtein(cm_target, cm_typed) <= levenshtein(cm_target, cm_typed2)) =>
        RLe(cm_out[1].stress, cm_out2[1].stress)

StressMonotoneWitness ==
    /\ cm_out # None
    /\ cm_out2 # None
    /\ cm_target = <<"a", "b">>
    /\ cm_out[1].errors = 1
    /\ cm_out2[1].errors = 2
    /\ RLt(cm_out[1].stress, cm_out2[1].stress)

\* C6: stress in [0, 20) is Relaxed, [20, 40) Mild, [40, 70) Stressed and
\* [70, 100] High, so 20 is Mild, 40 Stressed, 70 and 100 High.
MoodBands ==
    fb_out # None =>
        LET s    == fb_in.stress
            mood == fb_out[1].mood
        IN  /\ (RLe(R(0), s) /\ RLt(s, R(20))) => mood = Relaxed
            /\ (RLe(R(20), s) /\ RLt(s, R(40))) => mood = Mild
            /\ (RLe(R(40), s) /\ RLt(s, R(70))) => mood = Stressed
            /\ (RLe(R(70), s) /\ RLe(s, R(100))) => mood = High
            /\ Cardinality({mood} \cap {Relaxed, Mild, Stressed, High}) = 1

MoodBoundaryWitness ==
    /\ fb_out # None
    /\ fb_in.stress = R(20)
    /\ fb_out[1].mood = Mild

\* C7: the tips are never empty, the accuracy tip comes before the speed tip,
\* and the maintain tip is there exactly when accuracy >= 0.85 and wpm >= 25,
\* and is then the only tip.
TipsRule ==
    fb_out # None =>
        LET tips == fb_out[1].tips
            good == RLe(Rat(85, 100), fb_in.accuracy) /\ RLe(R(25), fb_in.wpm)
        IN  /\ tips # <<>>
            /\ tips \in {<<AccuracyTip>>, <<SpeedTip>>, <<AccuracyTip, SpeedTip>>,
                         <<MaintainTip>>}
            /\ (\E i \in 1..Len(tips) : tips[i] = MaintainTip) <=> good
            /\ good => tips = <<MaintainTip>>

TipsBoundaryWitness ==
    /\ fb_out # None
    /\ fb_in.accuracy = Rat(85, 100)
    /\ fb_in.wpm = R(25)
    /\ fb_out[1].tips = <<MaintainTip>>

\* the first target typed identically in 60 seconds
QuickBrownFoxCase ==
    /\ cm_out # None
    /\ cm_target = targets[1]
    /\ cm_typed = cm_target
    /\ cm_elapsed = R(60)

\* stress rounded to one decimal is n / 10
RoundsToTenths(s, n) ==
    /\ RLe(Rat(10 * n - 5, 100), s)
    /\ RLt(s, Rat(10 * n + 5, 100))

\* C8 as claimed: the first target has length 45 and, typed identically in 60
\* seconds, gives errors 0, accuracy 1, wpm (45/5)/1 = 9, stress about 37.1
\* and mood Mild.
QuickBrownFoxAsClaimed ==
    QuickBrownFoxCase =>
        /\ Len(cm_target) = 45
        /\ cm_out[1].errors = 0
        /\ cm_out[1].accuracy = R(1)
        /\ cm_out[1].wpm = R(9)
        /\ RoundsToTenths(cm_out[1].stress, 371)
        /\ feedback_text(cm_out[1]).mood = Mild

\* C8 as amended: the first target has length 44 and, typed identically in 60
\* seconds, gives errors 0, accuracy 1, wpm (44/5)/1 = 8.8, stress
\* 50 * (35 - 8.8) / 35, about 37.4, and mood Mild.
QuickBrownFox ==
    QuickBrownFoxCase =>
        /\ Len(cm_target) = 44
        /\ cm_out[1].errors = 0
        /\ cm_out[1].accuracy = R(1)
        /\ cm_out[1].wpm = Rat(88, 10)
        /\ cm_out[1].stress = RDiv(RMul(R(50), RSub(R(35), Rat(88, 10))), R(35))
        /\ RoundsToTenths(cm_out[1].stress, 374)
        /\ feedback_text(cm_out[1]).mood = Mild

QuickBrownFoxWitness == QuickBrownFoxCase /\ cm_out[1].errors = 0

\* C9: after New Sentence and after Clear, from any session state, start_time
\* is None and ended is False.
ResetByNewSentenceAndClear ==
    [][(new_sentence \/ clear_typed) => (start_time' = None /\ ended' = FALSE)]_vars

\* C10: the typing area is enabled exactly when a test is running.
TypingEnabledIffRunning ==
    (type_box.state = "normal") <=> (start_time # None)

====
